---- MODULE Spec2Model ----
(***************************************************************************)
(* The knapsack evolutionary-algorithm sweep of knapsack.py: the fitness   *)
(* evaluator, the set crossover and mutation, one (mu+lambda) run of       *)
(* run_ea with NSGA-II survivor selection, the run result derived from the *)
(* logbook, repeated runs in one process over the shared random stream and *)
(* the global toolbox, and main's aggregation over (cxpb, mutpb) groups.   *)
(*                                                                         *)
(* Numbers.  A probability is held in tenths (cxpb = 0.3 is 3), and one    *)
(* call of random.random() is the first decimal digit 0..9 of the float it *)
(* returns, so that `random.random() < i/10` is `digit < i`.  An item      *)
(* value is an integer.  A mean over n rows is held as the pair (sum, n)   *)
(* and compared by cross-multiplication.                                   *)
(***************************************************************************)
EXTENDS Integers, Sequences, FiniteSets, TLC

VARIABLES
    pc,         \* position of the program
    rng,        \* state of the process-wide `random` stream
    toolbox,    \* the global toolbox: what run_ea registered last
    cfg,        \* arguments of the current run_ea call: seed, cxpb, mutpb
    items,      \* run_ea's local item table: index -> <<weight, value>>
    pop,        \* the population: a sequence of individuals with fitness
    offspring,  \* offspring produced so far in this generation (varOr)
    gen,        \* generation counter of eaMuPlusLambda
    logbook,    \* the run's Logbook: sequence of generation records
    result,     \* run_ea's return value, or None
    history,    \* main's `results`: rows of runs completed in this process
    ind1,       \* operator harness: first individual
    ind2,       \* operator harness: second individual
    fit,        \* operator harness: last value returned by evalKnapsack
    last,       \* operator harness: what the last operator call was given
    agg         \* main's aggregation loop: table, position, best so far

runVars == <<cfg, items, pop, offspring, gen, logbook, result>>
procVars == <<rng, toolbox, history>>
opVars == <<ind1, ind2, fit, last>>
vars == <<pc, rng, toolbox, cfg, items, pop, offspring, gen, logbook, result,
          history, ind1, ind2, fit, last, agg>>

None == <<>>
\* earliest_generation = None (line 117): no generation index
NoGeneration == 0 - 1

(***************************************************************************)
(* Sizes.  knapsack.py runs NBR_ITEMS = 20, IND_INIT_SIZE = 5, MU = 50,    *)
(* LAMBDA = 100, NGEN = 100 over seeds 1..29; the model is checked at the  *)
(* sizes below.  MAX_ITEM, MAX_WEIGHT and the penalty are the program's.   *)
(***************************************************************************)
NBR_ITEMS == 3
IND_INIT_SIZE == 2
MU == 2
LAMBDA_ == 2
NGEN == 2
NSEEDS == 2
MAX_RUNS == 3
AGG_GROUPS == 2
EVAL_ITEMS == 6
MAX_ITEM == 50
MAX_WEIGHT == 50
PENALTY_WEIGHT == 10000

Digits == 0 .. 9
Universe == 0 .. (NBR_ITEMS - 1)

Min2(a, b) == IF a <= b THEN a ELSE b
Abs(x) == IF x < 0 THEN 0 - x ELSE x

Count(seq, x) == Cardinality({i \in 1 .. Len(seq) : seq[i] = x})
Range(seq) == {seq[i] : i \in 1 .. Len(seq)}

RECURSIVE SeqSum(_)
SeqSum(s) == IF s = <<>> THEN 0 ELSE Head(s) + SeqSum(Tail(s))

RECURSIVE SumOver(_, _, _)
\* sum(items[item][k] for item in individual), k = 1 the weight, k = 2 the value
SumOver(S, its, k) ==
    IF S = {} THEN 0
    ELSE LET x == CHOOSE y \in S : TRUE
         IN  its[x][k] + SumOver(S \ {x}, its, k)

(***************************************************************************)
(* evalKnapsack.  items[item] raises KeyError for an index the table does  *)
(* not hold; the sums are taken before the test.                           *)
(***************************************************************************)
evalKnapsackNoWeightTest(individual, its) ==
    IF ~(individual \subseteq DOMAIN its) THEN <<"KeyError">>
    ELSE IF Cardinality(individual) > MAX_ITEM THEN <<PENALTY_WEIGHT, 0>>
         ELSE <<SumOver(individual, its, 1), SumOver(individual, its, 2)>>

evalKnapsack(individual, its) ==
    IF ~(individual \subseteq DOMAIN its) THEN <<"KeyError">>
    ELSE LET weight == SumOver(individual, its, 1)
             value == SumOver(individual, its, 2)
         IN  IF Cardinality(individual) > MAX_ITEM \/ weight > MAX_WEIGHT
             THEN <<PENALTY_WEIGHT, 0>>
             ELSE <<weight, value>>

(***************************************************************************)
(* cxSet(ind1, ind2) on two distinct set objects: temp = set(ind1);        *)
(* ind1 &= ind2; ind2 ^= temp.  The result is <<ind1, ind2>> after.        *)
(***************************************************************************)
cxSetAgainstIntersected(a, b) ==
    LET a1 == a \cap b
    IN  <<a1, (b \ a1) \cup (a1 \ b)>>

cxSet(a, b) ==
    LET temp == a
        a1 == a \cap b
        b1 == (b \ temp) \cup (temp \ b)
    IN  <<a1, b1>>

(***************************************************************************)
(* The list sorted(tuple(individual)) and random's derived draws: a draw   *)
(* d is the digit of one random.random(); randrange(n) and choice over n   *)
(* elements take floor(random() * n).                                      *)
(***************************************************************************)
RECURSIVE SortedSeq(_)
SortedSeq(S) ==
    IF S = {} THEN <<>>
    ELSE LET m == CHOOSE x \in S : \A y \in S : x <= y
         IN  <<m>> \o SortedSeq(S \ {m})

RandBelow(d, n) == (d * n) \div 10

(***************************************************************************)
(* mutSet(individual): coin is the digit of random.random() at line 57,    *)
(* d the digit of the draw the chosen branch makes (none is made on the    *)
(* remove branch of an empty individual).  random.choice of an empty       *)
(* sequence raises IndexError.  The result is the individual after, the    *)
(* error if one was raised, and the number of draws consumed.              *)
(***************************************************************************)
mutSetUnguarded(individual, coin, d) ==
    IF coin < 5
    THEN IF individual = {}
         THEN [ind |-> individual, err |-> <<"IndexError">>, used |-> 1]
         ELSE LET s == SortedSeq(individual)
              IN  [ind |-> individual \ {s[RandBelow(d, Len(s)) + 1]},
                   err |-> None, used |-> 2]
    ELSE [ind |-> individual \cup {RandBelow(d, NBR_ITEMS)},
          err |-> None, used |-> 2]

mutSet(individual, coin, d) ==
    IF coin < 5
    THEN IF individual # {}
         THEN LET s == SortedSeq(individual)
              IN  [ind |-> individual \ {s[RandBelow(d, Len(s)) + 1]},
                   err |-> None, used |-> 2]
         ELSE [ind |-> individual, err |-> None, used |-> 1]
    ELSE [ind |-> individual \cup {RandBelow(d, NBR_ITEMS)},
          err |-> None, used |-> 2]


(***************************************************************************)
(* Fitness (weights = (-1.0, 1.0)) and the library's NSGA-II selection as  *)
(* run_ea registers it: tools.selNSGA2 over sortNondominated and           *)
(* assignCrowdingDist.  A fitness is <<weight, value>>; its weighted       *)
(* values are <<-weight, value>>.                                          *)
(***************************************************************************)
DominatesReversed(f, g) ==
    /\ f[1] >= g[1] /\ f[2] >= g[2]
    /\ (f[1] > g[1] \/ f[2] > g[2])

\* Fitness.dominates: no worse on both weighted values, better on one.
Dominates(f, g) ==
    /\ (0 - f[1]) >= (0 - g[1]) /\ f[2] >= g[2]
    /\ ((0 - f[1]) > (0 - g[1]) \/ f[2] > g[2])

RECURSIVE DistinctSeq(_, _)
\* keys of map_fit_ind in insertion order: each fitness at its first place
DistinctSeq(fs, seen) ==
    IF fs = <<>> THEN <<>>
    ELSE IF Head(fs) \in seen THEN DistinctSeq(Tail(fs), seen)
         ELSE <<Head(fs)>> \o DistinctSeq(Tail(fs), seen \cup {Head(fs)})

RECURSIVE Concat(_)
Concat(ss) == IF ss = <<>> THEN <<>> ELSE Head(ss) \o Concat(Tail(ss))

\* the pool positions holding fitness f, in pool order (map_fit_ind[f])
IndsOf(fs, f) == SelectSeq([i \in 1 .. Len(fs) |-> i], LAMBDA i : fs[i] = f)

RECURSIVE Peel(_, _, _)
\* the inner loops of sortNondominated over <<fit_p, fit_d>> in order: the
\* count of fit_d drops by one and fit_d joins next_front as it reaches 0
Peel(pairs, counts, next) ==
    IF pairs = <<>> THEN next
    ELSE LET q == Head(pairs)[2]
             c == counts[q] - 1
         IN  Peel(Tail(pairs), [counts EXCEPT ![q] = c],
                  IF c = 0 THEN Append(next, q) ELSE next)

RECURSIVE PeelCounts(_, _)
PeelCounts(pairs, counts) ==
    IF pairs = <<>> THEN counts
    ELSE LET q == Head(pairs)[2]
         IN  PeelCounts(Tail(pairs), [counts EXCEPT ![q] = counts[q] - 1])

RECURSIVE RankFronts(_, _, _, _, _, _)
\* `while pareto_sorted < N`: append whole fronts until N individuals are in
RankFronts(fs, fits, current, counts, fronts, N) ==
    IF Len(Concat(fronts)) >= N \/ current = <<>> THEN fronts
    ELSE LET dominated(p) ==
                 SelectSeq([j \in 1 .. Len(fits) |-> j],
                           LAMBDA j : Dominates(fits[p], fits[j]))
             pairs == Concat([x \in 1 .. Len(current) |->
                         [y \in 1 .. Len(dominated(current[x])) |->
                             <<current[x], dominated(current[x])[y]>>]])
             next == Peel(pairs, counts, <<>>)
             members == Concat([x \in 1 .. Len(next) |-> IndsOf(fs, fits[next[x]])])
         IN  IF next = <<>> THEN fronts
             ELSE RankFronts(fs, fits, next, PeelCounts(pairs, counts),
                             Append(fronts, members), N)

\* sortNondominated(individuals, k): fronts of pool positions; fs is the
\* pool's fitness sequence
sortNondominated(fs, k) ==
    IF k = 0 THEN <<>>
    ELSE LET fits == DistinctSeq(fs, {})
             counts == [j \in 1 .. Len(fits) |->
                          Cardinality({i \in 1 .. Len(fits) : Dominates(fits[i], fits[j])})]
             first == SelectSeq([j \in 1 .. Len(fits) |-> j], LAMBDA j : counts[j] = 0)
             members == Concat([x \in 1 .. Len(first) |-> IndsOf(fs, fits[first[x]])])
         IN  RankFronts(fs, fits, first, counts, <<members>>, Min2(Len(fs), k))

RECURSIVE SortByObj(_, _, _)
\* list.sort(key = values[k]): stable, ascending; elements are <<values, i>>
SortByObj(crowd, k, done) ==
    IF crowd = <<>> THEN done
    ELSE LET x == Head(crowd)
             keep == SelectSeq(done, LAMBDA e : e[1][k] <= x[1][k])
             rest == SelectSeq(done, LAMBDA e : e[1][k] > x[1][k])
         IN  SortByObj(Tail(crowd), k, keep \o <<x>> \o rest)

(***************************************************************************)
(* assignCrowdingDist(individuals): for each objective the two ends of the *)
(* sorted list are set to infinity and, unless the objective's range is 0, *)
(* each inner element gains (next - prev) / (nobj * range).  A distance is *)
(* [inf, num]: num is the finite sum times the product of the non-zero     *)
(* ranges times nobj, one positive factor for the whole front.             *)
(***************************************************************************)
assignCrowdingDist(front, fs) ==
    LET n == Len(front)
        crowd0 == [i \in 1 .. n |-> <<fs[front[i]], i>>]
        c1 == SortByObj(crowd0, 1, <<>>)
        c2 == SortByObj(c1, 2, <<>>)
        r1 == c1[n][1][1] - c1[1][1][1]
        r2 == c2[n][1][2] - c2[1][1][2]
        s1 == IF r2 = 0 THEN 1 ELSE r2
        s2 == IF r1 = 0 THEN 1 ELSE r1
        posIn(c, i) == CHOOSE x \in 1 .. n : c[x][2] = i
        gain(c, k, r, sc, i) ==
            LET x == posIn(c, i)
            IN  IF r = 0 \/ x = 1 \/ x = n THEN 0
                ELSE (c[x + 1][1][k] - c[x - 1][1][k]) * sc
        isEnd(c, i) == posIn(c, i) = 1 \/ posIn(c, i) = n
    IN  IF n = 0 THEN <<>>
        ELSE [i \in 1 .. n |->
                [inf |-> isEnd(c1, i) \/ isEnd(c2, i),
                 num |-> IF isEnd(c2, i) THEN 0
                         ELSE gain(c1, 1, r1, s1, i) + gain(c2, 2, r2, s2, i)]]

DistGeq(a, b) == a.inf \/ (~b.inf /\ a.num >= b.num)

RECURSIVE SortByDistDesc(_, _, _)
\* sorted(front, key = crowding_dist, reverse = True): stable
SortByDistDesc(idx, dist, done) ==
    IF idx = <<>> THEN done
    ELSE LET x == Head(idx)
             keep == SelectSeq(done, LAMBDA e : DistGeq(dist[e], dist[x]))
             rest == SelectSeq(done, LAMBDA e : ~DistGeq(dist[e], dist[x]))
         IN  SortByDistDesc(Tail(idx), dist, keep \o <<x>> \o rest)

\* tools.selNSGA2(individuals, k): the chosen pool positions, in order
selNSGA2(fs, k) ==
    LET fronts == sortNondominated(fs, k)
        nf == Len(fronts)
        chosen == Concat(SubSeq(fronts, 1, nf - 1))
        k2 == k - Len(chosen)
        lastFront == fronts[nf]
        dist == assignCrowdingDist(lastFront, fs)
        sortedFront == SortByDistDesc([i \in 1 .. Len(lastFront) |-> i], dist, <<>>)
    IN  IF nf = 0 THEN <<>>
        ELSE IF k2 > 0
             THEN chosen \o [i \in 1 .. Min2(k2, Len(lastFront)) |-> lastFront[sortedFront[i]]]
             ELSE chosen

(***************************************************************************)
(* The process-wide random stream.  The generator is a fixed function of   *)
(* its state: random.seed(n) puts it in a state that depends on n alone,   *)
(* every draw reads one digit and moves to the next state.                 *)
(***************************************************************************)
random_seed_ignored(seed, state) == state

\* random.seed(seed): the state after seeding, whatever the state before
random_seed(seed, state) == (seed * 271 + 13) % 1000

NextState(state) == (state * 21 + 7) % 1000
DigitOf(state) == state \div 100

RECURSIVE Skip(_, _)
\* the state after k draws
Skip(state, k) == IF k = 0 THEN state ELSE Skip(NextState(state), k - 1)

\* the digits of the next k draws
DigitsFrom(state, k) == [j \in 1 .. k |-> DigitOf(Skip(state, j - 1))]

(***************************************************************************)
(* create_items(seed): reseeds, then draws randint(1, 10) and              *)
(* uniform(0, 100) per item, in index order.  Gives the table and the      *)
(* stream state it leaves.                                                 *)
(***************************************************************************)
create_items(seed, state) ==
    LET s0 == random_seed(seed, state)
        ds == DigitsFrom(s0, 2 * NBR_ITEMS)
    IN  [table |-> [i \in Universe |-> <<1 + RandBelow(ds[2 * i + 1], 10),
                                         10 * ds[2 * i + 2]>>],
         rng |-> Skip(s0, 2 * NBR_ITEMS)]

(***************************************************************************)
(* toolbox.individual(): initRepeat(creator.Individual, attr_item,         *)
(* IND_INIT_SIZE), a set of IND_INIT_SIZE draws of randrange(NBR_ITEMS);   *)
(* its fitness is not valid yet.                                           *)
(***************************************************************************)
NewIndividual(ds) ==
    [ind |-> {RandBelow(ds[j], NBR_ITEMS) : j \in 1 .. IND_INIT_SIZE},
     fit |-> None]

\* random.sample(population, 2): two distinct positions, in draw order
Sample2(n, da, db) ==
    LET j1 == RandBelow(da, n) + 1
        poolAfter == [x \in 1 .. n |-> IF x = j1 THEN n ELSE x]
        j2 == RandBelow(db, n - 1) + 1
    IN  <<j1, poolAfter[j2]>>

(***************************************************************************)
(* One iteration of algorithms.varOr, as eaMuPlusLambda calls it with      *)
(* run_ea's cxpb and mutpb: d[1] is the digit of op_choice, d[2..4] the    *)
(* digits of the draws the chosen branch makes.  crossed and mutated tell  *)
(* which of toolbox.mate and toolbox.mutate were applied to the child,     *)
(* tested which probability tests decided on it.                           *)
(***************************************************************************)
varAndOne(population, cxpb, mutpb, d) ==
    LET n == Len(population)
        pr == Sample2(n, d[2], d[3])
        a == population[pr[1]]
        doCx == d[1] < cxpb
        afterCx == IF doCx THEN cxSet(a.ind, population[pr[2]].ind)[1] ELSE a.ind
        doMut == d[4] < mutpb
        m == mutSet(afterCx, d[3], d[4])
    IN  [child |-> [ind |-> IF doMut THEN m.ind ELSE afterCx,
                    fit |-> IF doCx \/ doMut THEN None ELSE a.fit],
         crossed |-> doCx, mutated |-> doMut,
         tested |-> {"cxpb", "mutpb"}, err |-> None, used |-> 4]

varOrOne(population, cxpb, mutpb, d) ==
    LET n == Len(population)
    IN  IF d[1] < cxpb
        THEN LET pr == Sample2(n, d[2], d[3])
                 c == cxSet(population[pr[1]].ind, population[pr[2]].ind)
             IN  [child |-> [ind |-> c[1], fit |-> None],
                  crossed |-> TRUE, mutated |-> FALSE,
                  tested |-> {"cxpb"}, err |-> None, used |-> 3]
        ELSE IF d[1] < cxpb + mutpb
        THEN LET parent == population[RandBelow(d[2], n) + 1]
                 m == mutSet(parent.ind, d[3], d[4])
             IN  [child |-> [ind |-> m.ind, fit |-> None],
                  crossed |-> FALSE, mutated |-> TRUE,
                  tested |-> {"cxpb", "mutpb"}, err |-> m.err,
                  used |-> 2 + m.used]
        ELSE [child |-> population[RandBelow(d[2], n) + 1],
              crossed |-> FALSE, mutated |-> FALSE,
              tested |-> {"cxpb", "mutpb"}, err |-> None, used |-> 2]

\* evaluate the individuals whose fitness is not valid (toolbox.evaluate)
EvaluateInvalid(inds, its) ==
    [i \in 1 .. Len(inds) |->
        IF inds[i].fit = None
        THEN [inds[i] EXCEPT !.fit = evalKnapsack(inds[i].ind, its)]
        ELSE inds[i]]

NbrInvalid(inds) == Cardinality({i \in 1 .. Len(inds) : inds[i].fit = None})

MaxOf(S) == CHOOSE x \in S : \A y \in S : y <= x
MinOf(S) == CHOOSE x \in S : \A y \in S : x <= y

(***************************************************************************)
(* stats.compile(population) and logbook.record(gen, nevals, ...): avg is  *)
(* the column sums (the mean times the population size), std the column    *)
(* sums of squares times the size minus the squared sums (the variance     *)
(* times the squared size), min and max the column minima and maxima.      *)
(***************************************************************************)
Record(g, nevals, population) ==
    LET n == Len(population)
        col(k) == [i \in 1 .. n |-> population[i].fit[k]]
        sq(k) == [i \in 1 .. n |-> population[i].fit[k] * population[i].fit[k]]
        vals(k) == {population[i].fit[k] : i \in 1 .. n}
    IN  [gen |-> g, nevals |-> nevals,
         avg |-> <<SeqSum(col(1)), SeqSum(col(2))>>,
         std |-> <<n * SeqSum(sq(1)) - SeqSum(col(1)) * SeqSum(col(1)),
                   n * SeqSum(sq(2)) - SeqSum(col(2)) * SeqSum(col(2))>>,
         min |-> <<MinOf(vals(1)), MinOf(vals(2))>>,
         max |-> <<MaxOf(vals(1)), MaxOf(vals(2))>>]

(***************************************************************************)
(* run_ea lines 110-123: the overall maximum of the records' maximum value *)
(* and the generation of the first record that holds it.                   *)
(***************************************************************************)
RunResultLast(records) ==
    LET all_max_values == {records[i].max[2] : i \in 1 .. Len(records)}
        overall_max_value == MaxOf(all_max_values)
        hits == {i \in 1 .. Len(records) : records[i].max[2] = overall_max_value}
    IN  <<records[MaxOf(hits)].gen, overall_max_value>>

RunResult(records) ==
    LET all_max_values == {records[i].max[2] : i \in 1 .. Len(records)}
        overall_max_value == MaxOf(all_max_values)
        hits == {i \in 1 .. Len(records) : records[i].max[2] = overall_max_value}
        earliest_generation ==
            IF hits = {} THEN NoGeneration ELSE records[MinOf(hits)].gen
    IN  <<earliest_generation, overall_max_value>>

\* The least digit of each outcome of RandBelow(., n): every outcome of a draw
\* that is only read through RandBelow(., n) is reached from one of these.
DrawReps(n) ==
    {d \in Digits : \A e \in Digits : RandBelow(e, n) = RandBelow(d, n) => d <= e}

\* Digits on either side of the 0.5 test of mutSet.
CoinReps == {0, 5}

(***************************************************************************)
(* Operator harness: the three pure operators applied to drawn inputs.     *)
(***************************************************************************)
EvalUniverse == 0 .. (EVAL_ITEMS - 1)
EvalWeights == {1, 10}
EvalValues == {0, 7}

IdleRun ==
    /\ cfg = None /\ items = None /\ pop = <<>> /\ offspring = <<>>
    /\ gen = 0 /\ logbook = <<>> /\ result = None
IdleProc == rng = 0 /\ toolbox = None /\ history = <<>>
IdleOps == ind1 = {} /\ ind2 = {} /\ fit = None /\ last = None
IdleAgg == agg = None

InitEval ==
    /\ pc = "eval"
    /\ ind1 \in SUBSET EvalUniverse
    /\ items \in [EvalUniverse -> EvalWeights \X EvalValues]
    /\ ind2 = {} /\ fit = None /\ last = None
    /\ cfg = None /\ pop = <<>> /\ offspring = <<>>
    /\ gen = 0 /\ logbook = <<>> /\ result = None
    /\ IdleProc /\ IdleAgg

Evaluate ==
    /\ pc = "eval"
    /\ fit' = evalKnapsack(ind1, items)
    /\ pc' = "evaluated"
    /\ UNCHANGED <<rng, toolbox, cfg, items, pop, offspring, gen, logbook,
                   result, history, ind1, ind2, last, agg>>

NextEval == Evaluate
SpecEval == InitEval /\ [][NextEval]_vars

InitVar ==
    /\ pc = "ops"
    /\ ind1 \in SUBSET Universe
    /\ ind2 \in SUBSET Universe
    /\ fit = None /\ last = None
    /\ IdleRun /\ IdleProc /\ IdleAgg

Mate ==
    /\ pc = "ops"
    /\ LET r == cxSet(ind1, ind2)
       IN  /\ ind1' = r[1]
           /\ ind2' = r[2]
    /\ last' = [op |-> "cxSet", a |-> ind1, b |-> ind2]
    /\ UNCHANGED <<pc, rng, toolbox, cfg, items, pop, offspring, gen, logbook,
                   result, history, fit, agg>>

Mutate ==
    /\ pc = "ops"
    /\ \E coin \in CoinReps, d \in Digits :
          LET r == mutSet(ind1, coin, d)
          IN  /\ ind1' = r.ind
              /\ last' = [op |-> "mutSet", pre |-> ind1, coin |-> coin,
                          d |-> d, err |-> r.err]
    /\ UNCHANGED <<pc, rng, toolbox, cfg, items, pop, offspring, gen, logbook,
                   result, history, ind2, fit, agg>>

NextVar == Mate \/ Mutate
SpecVar == InitVar /\ [][NextVar]_vars

(***************************************************************************)
(* One call of run_ea.  The bodies below are the program's steps with the  *)
(* digits of their random draws as parameters; a specification supplies    *)
(* the digits, either any digits or those of the seeded stream.            *)
(***************************************************************************)
Seeds == 1 .. NSEEDS
GridSteps == {0, 5, 10}
\* main lines 134-136: cxpb = i/10 and mutpb = 1 - i/10, in tenths
Pairs == {<<i, 10 - i>> : i \in GridSteps}

RunWeights == {2, 9}
RunValues == {0, 30}
\* item tables create_items can give; item 0 is held at one weight and value
ItemTables == {t \in [Universe -> RunWeights \X RunValues] : t[0] = <<2, 30>>}

\* lines 65-86: the arguments, the item table, the registrations
RunEaBody(seed, cxpb, mutpb, tbl) ==
    /\ cfg' = [seed |-> seed, cxpb |-> cxpb, mutpb |-> mutpb]
    /\ items' = tbl
    /\ toolbox' = [attr_item |-> NBR_ITEMS, individual |-> IND_INIT_SIZE,
                   evaluate |-> tbl, mate |-> "cxSet", mutate |-> "mutSet",
                   select |-> "selNSGA2"]
    /\ pop' = <<>>
    /\ offspring' = <<>>
    /\ gen' = 0
    /\ logbook' = <<>>
    /\ result' = None
    /\ pc' = "populate"
    /\ UNCHANGED <<history, opVars, agg>>

\* line 92, one iteration of initRepeat(list, toolbox.individual, MU)
CreateIndividualBody(ds) ==
    /\ pc = "populate"
    /\ Len(pop) < MU
    /\ pop' = Append(pop, NewIndividual(ds))
    /\ UNCHANGED <<pc, toolbox, cfg, items, offspring, gen, logbook, result,
                   history, opVars, agg>>

\* eaMuPlusLambda before its loop: evaluate the population, record gen 0
EaInit ==
    /\ pc = "populate"
    /\ Len(pop) = MU
    /\ pop' = EvaluateInvalid(pop, toolbox.evaluate)
    /\ logbook' = <<Record(0, NbrInvalid(pop), pop')>>
    /\ gen' = 1
    /\ pc' = IF NGEN >= 1 THEN "vary" ELSE "derive"
    /\ UNCHANGED <<rng, toolbox, cfg, items, offspring, result, history,
                   opVars, agg>>

\* one iteration of varOr's loop over range(lambda_)
VarOrBody(d) ==
    /\ pc = "vary"
    /\ Len(offspring) < LAMBDA_
    /\ LET r == varOrOne(pop, cfg.cxpb, cfg.mutpb, d)
       IN  /\ offspring' = Append(offspring,
                              [ind |-> r.child.ind, fit |-> r.child.fit,
                               crossed |-> r.crossed, mutated |-> r.mutated,
                               tested |-> r.tested])
           \* an exception raised by an operator leaves run_ea
           /\ pc' = IF r.err = None THEN pc ELSE "raised"
    /\ UNCHANGED <<toolbox, cfg, items, pop, gen, logbook, result, history,
                   opVars, agg>>

PoolOf(population, children) ==
    population \o [i \in 1 .. Len(children) |->
                     [ind |-> children[i].ind, fit |-> children[i].fit]]

\* selection among the offspring alone
NextPopulationOffspringOnly(population, children, its) ==
    LET pool == EvaluateInvalid(PoolOf(<<>>, children), its)
        chosen == selNSGA2([i \in 1 .. Len(pool) |-> pool[i].fit], MU)
    IN  [i \in 1 .. Len(chosen) |-> pool[chosen[i]]]

\* the rest of one generation: evaluate the offspring, select mu of
\* population + offspring, record the new population
NextPopulation(population, children, its) ==
    LET pool == EvaluateInvalid(PoolOf(population, children), its)
        chosen == selNSGA2([i \in 1 .. Len(pool) |-> pool[i].fit], MU)
    IN  [i \in 1 .. Len(chosen) |-> pool[chosen[i]]]

SelectStepOneMore ==
    /\ pc = "vary"
    /\ Len(offspring) = LAMBDA_
    /\ pop' = NextPopulation(pop, offspring, toolbox.evaluate)
    /\ logbook' = Append(logbook, Record(gen, NbrInvalid(offspring), pop'))
    /\ offspring' = <<>>
    /\ gen' = gen + 1
    /\ pc' = IF gen > NGEN THEN "derive" ELSE "vary"
    /\ UNCHANGED <<rng, toolbox, cfg, items, result, history, opVars, agg>>

SelectStep ==
    /\ pc = "vary"
    /\ Len(offspring) = LAMBDA_
    /\ pop' = NextPopulation(pop, offspring, toolbox.evaluate)
    /\ logbook' = Append(logbook, Record(gen, NbrInvalid(offspring), pop'))
    /\ offspring' = <<>>
    /\ gen' = gen + 1
    /\ pc' = IF gen >= NGEN THEN "derive" ELSE "vary"
    /\ UNCHANGED <<rng, toolbox, cfg, items, result, history, opVars, agg>>

\* lines 110-123
DeriveResult ==
    /\ pc = "derive"
    /\ result' = RunResult(logbook)
    /\ pc' = "returned"
    /\ UNCHANGED <<rng, toolbox, cfg, items, pop, offspring, gen, logbook,
                   history, opVars, agg>>

(***************************************************************************)
(* SpecRun: one run_ea call, any seed and grid pair, the stream taken as   *)
(* able to give any digit at every draw.                                   *)
(***************************************************************************)
OpReps == {0, 5} \cup (GridSteps \cap Digits)
PickReps == UNION {DrawReps(n) : n \in 1 .. NBR_ITEMS}

InitRun ==
    /\ pc = "call"
    /\ IdleRun /\ IdleProc /\ IdleOps /\ IdleAgg

RunEaAny ==
    /\ pc = "call"
    \* with any digit at every draw the seed decides nothing: one seed
    /\ \E seed \in {1}, pr \in Pairs, tbl \in ItemTables :
          RunEaBody(seed, pr[1], pr[2], tbl)
    /\ UNCHANGED rng

CreateIndividualAny ==
    /\ \E ds \in [1 .. IND_INIT_SIZE -> DrawReps(NBR_ITEMS)] :
          CreateIndividualBody(ds)
    /\ UNCHANGED rng

VarOrAny ==
    /\ \E d1 \in OpReps, d2 \in DrawReps(MU),
          d3 \in DrawReps(MU - 1) \cup CoinReps, d4 \in PickReps :
          VarOrBody(<<d1, d2, d3, d4>>)
    /\ UNCHANGED rng

NextRun ==
    \/ RunEaAny
    \/ CreateIndividualAny
    \/ EaInit
    \/ VarOrAny
    \/ SelectStep
    \/ DeriveResult

SpecRun == InitRun /\ [][NextRun]_vars

(***************************************************************************)
(* SpecSweep: runs of run_ea one after another in one process, in any      *)
(* order of (seed, pair), every draw read from the seeded stream.  The     *)
(* stream and the toolbox are what one run leaves to the next.  A row of   *)
(* `results` also keeps the run's logbook, for comparison.                 *)
(***************************************************************************)
StartStates == {0, 417}

InitSweep ==
    /\ pc = "main"
    /\ rng \in StartStates
    /\ toolbox = None
    /\ history = <<>>
    /\ IdleRun /\ IdleOps /\ IdleAgg

RunEaSeeded ==
    /\ pc = "main"
    /\ Len(history) < MAX_RUNS
    /\ \E seed \in Seeds, pr \in Pairs :
          LET ci == create_items(seed, random_seed(seed, rng))
          IN  /\ RunEaBody(seed, pr[1], pr[2], ci.table)
              /\ rng' = ci.rng

CreateIndividualSeeded ==
    /\ CreateIndividualBody(DigitsFrom(rng, IND_INIT_SIZE))
    /\ rng' = Skip(rng, IND_INIT_SIZE)

VarOrSeeded ==
    LET d == DigitsFrom(rng, 4)
    IN  /\ VarOrBody(d)
        /\ rng' = Skip(rng, varOrOne(pop, cfg.cxpb, cfg.mutpb, d).used)

\* main lines 138-145: the row of the run that returned
MainCollect ==
    /\ pc = "returned"
    /\ history' = Append(history,
                     [seed |-> cfg.seed, cxpb |-> cfg.cxpb, mutpb |-> cfg.mutpb,
                      earliest_gen |-> result[1], max_val |-> result[2],
                      log |-> logbook])
    /\ pc' = "main"
    /\ UNCHANGED <<rng, toolbox, runVars, opVars, agg>>

NextSweep ==
    \/ RunEaSeeded
    \/ CreateIndividualSeeded
    \/ EaInit
    \/ VarOrSeeded
    \/ SelectStep
    \/ DeriveResult
    \/ MainCollect

SpecSweep == InitSweep /\ [][NextSweep]_vars

(***************************************************************************)
(* main's aggregation, lines 161-194, over a table of rows: the rows are   *)
(* grouped by (cxpb, mutpb) in order of first appearance, each group's     *)
(* means are taken, and the best group is kept while scanning the groups.  *)
(* A max_value is a whole number of units of 1e-10, so the tolerance 1e-9  *)
(* is 10 units; a mean is <<sum, count>>.                                  *)
(***************************************************************************)
TIE_TOL == 10

MeanGreater(a, b) == a[1] * b[2] > b[1] * a[2]
MeanLess(a, b) == a[1] * b[2] < b[1] * a[2]
\* abs(a - b) < 1e-9
MeanWithinTol(a, b) == Abs(a[1] * b[2] - b[1] * a[2]) < TIE_TOL * a[2] * b[2]

AggCombos == {<<i, 10 - i>> : i \in 0 .. (AGG_GROUPS - 1)}
AggGens == {5, 50}
AggVals == {0, 1, 20}

RECURSIVE Perms(_)
Perms(S) ==
    IF S = {} THEN {<<>>}
    ELSE UNION {{<<x>> \o q : q \in Perms(S \ {x})} : x \in S}

\* the rows of a sweep over the seeds, the pairs taken in the order `order`
RowsOf(order, cell) ==
    [k \in 1 .. NSEEDS * Len(order) |->
        LET sd == ((k - 1) \div Len(order)) + 1
            c == order[((k - 1) % Len(order)) + 1]
        IN  [seed |-> sd, cxpb |-> c[1], mutpb |-> c[2],
             earliest_gen |-> cell[<<sd, c>>][1], max_val |-> cell[<<sd, c>>][2],
             log |-> <<>>]]

InitAgg ==
    /\ pc = "collected"
    /\ \E order \in Perms(AggCombos),
          cell \in [Seeds \X AggCombos -> AggGens \X AggVals] :
          history = RowsOf(order, cell)
    /\ rng = 0 /\ toolbox = None
    /\ agg = None
    /\ IdleRun /\ IdleOps

\* lines 161-168: combos_dict in insertion order, nothing chosen yet
GroupRows ==
    /\ pc = "collected"
    /\ LET keys == DistinctSeq([k \in 1 .. Len(history) |->
                                  <<history[k].cxpb, history[k].mutpb>>], {})
           rowsOf(c) == SelectSeq(history,
                           LAMBDA r : <<r.cxpb, r.mutpb>> = c)
       IN  agg' = [order |-> keys,
                   combos_dict |-> [c \in Range(keys) |->
                       [k \in 1 .. Len(rowsOf(c)) |->
                           <<rowsOf(c)[k].earliest_gen, rowsOf(c)[k].max_val>>]],
                   idx |-> 1,
                   best_combo |-> None,
                   best_combo_avg_max_val |-> None,
                   best_combo_avg_gen |-> None]
    /\ pc' = "scan"
    /\ UNCHANGED <<procVars, runVars, opVars>>

MeanOfRuns(runs_list, k) ==
    <<SeqSum([x \in 1 .. Len(runs_list) |-> runs_list[x][k]]), Len(runs_list)>>

\* lines 170-186, one iteration; best_combo_avg_max_val = None is -inf
ScanCombo ==
    /\ pc = "scan"
    /\ agg.idx <= Len(agg.order)
    /\ LET combo == agg.order[agg.idx]
           runs_list == agg.combos_dict[combo]
           avg_gen == MeanOfRuns(runs_list, 1)
           avg_val == MeanOfRuns(runs_list, 2)
           best == agg.best_combo_avg_max_val
           take == [agg EXCEPT !.idx = @ + 1,
                               !.best_combo = combo,
                               !.best_combo_avg_max_val = avg_val,
                               !.best_combo_avg_gen = avg_gen]
           skip == [agg EXCEPT !.idx = @ + 1]
       IN  agg' = IF best = None \/ MeanGreater(avg_val, best)
                  THEN take
                  ELSE IF MeanWithinTol(avg_val, best)
                       THEN IF MeanLess(avg_gen, agg.best_combo_avg_gen)
                            THEN take ELSE skip
                       ELSE skip
    /\ UNCHANGED <<pc, procVars, runVars, opVars>>

\* lines 188-194
Report ==
    /\ pc = "scan"
    /\ agg.idx > Len(agg.order)
    /\ pc' = "reported"
    /\ UNCHANGED <<procVars, runVars, opVars, agg>>

NextAgg == GroupRows \/ ScanCombo \/ Report
SpecAgg == InitAgg /\ [][NextAgg]_vars

(***************************************************************************)
(* C2.  What run_ea returns and the logbook it builds depend on (seed,     *)
(* cxpb, mutpb) alone: two runs of one process with the same three give    *)
(* the same logbook and the same (earliest_generation, max_value),         *)
(* whatever ran before either.                                             *)
(***************************************************************************)
C2_RunsReproducible ==
    \A i, j \in 1 .. Len(history) :
        (/\ history[i].seed = history[j].seed
         /\ history[i].cxpb = history[j].cxpb
         /\ history[i].mutpb = history[j].mutpb) =>
            /\ history[i].log = history[j].log
            /\ history[i].earliest_gen = history[j].earliest_gen
            /\ history[i].max_val = history[j].max_val

\* the same run before and after a run of another seed and pair
C2_Witness ==
    /\ Len(history) = 3
    /\ history[1].seed = history[3].seed
    /\ history[1].cxpb = history[3].cxpb
    /\ history[2].seed # history[1].seed
    /\ history[2].cxpb # history[1].cxpb
    /\ history[2].log # history[1].log
    /\ history[1].log = history[3].log
    /\ history[1].cxpb = 5

(***************************************************************************)
(* C5.  The aggregation returns the group of highest mean max_value, and   *)
(* among groups whose mean max_value lies within 1e-9 of the highest the   *)
(* one of lowest mean earliest_generation, in whatever order the groups    *)
(* are scanned.                                                            *)
(***************************************************************************)
C5_TieBreakByGeneration ==
    pc = "reported" =>
        LET G == DOMAIN agg.combos_dict
            val(c) == MeanOfRuns(agg.combos_dict[c], 2)
            g(c) == MeanOfRuns(agg.combos_dict[c], 1)
            top == CHOOSE c \in G : \A e \in G : ~MeanGreater(val(e), val(c))
            tied == {c \in G : MeanWithinTol(val(c), val(top))}
        IN  /\ agg.best_combo \in tied
            /\ \A c \in tied : ~MeanLess(g(c), g(agg.best_combo))

(***************************************************************************)
(* C3.  Every run ends after exactly NGEN generation steps with a logbook  *)
(* of NGEN + 1 records whose generation indices are 0, 1, ..., NGEN: the   *)
(* records are numbered in order at every point of the run, the run        *)
(* returns only with all of them, it raises nothing, a step of the run is  *)
(* open until it returns, and every step brings the return nearer.         *)
(***************************************************************************)
\* the number of steps between here and the return
StepsLeft ==
    CASE pc = "call" -> 3 + MU + NGEN * (LAMBDA_ + 1)
      [] pc = "populate" -> 2 + (MU - Len(pop)) + NGEN * (LAMBDA_ + 1)
      [] pc = "vary" -> 1 + (NGEN - gen) * (LAMBDA_ + 1)
                          + (LAMBDA_ - Len(offspring)) + 1
      [] pc = "derive" -> 1
      [] OTHER -> 0

\* the guards of the run's steps
StepOpen ==
    \/ pc = "call"
    \/ pc = "populate" /\ Len(pop) <= MU
    \/ pc = "vary" /\ Len(offspring) <= LAMBDA_ /\ gen <= NGEN
    \/ pc = "derive"

C3_RecordsInOrder ==
    /\ pc # "raised"
    /\ Len(logbook) <= NGEN + 1
    /\ \A i \in 1 .. Len(logbook) : logbook[i].gen = i - 1
    /\ pc = "vary" => (Len(logbook) = gen /\ gen <= NGEN)
    /\ pc \in {"derive", "returned"} => Len(logbook) = NGEN + 1
    /\ pc # "returned" => StepOpen
    /\ StepsLeft >= 0

C3_RunTerminates ==
    /\ []C3_RecordsInOrder
    /\ [][StepsLeft' < StepsLeft]_vars

C3_Witness ==
    /\ pc = "returned"
    /\ Len(logbook) = NGEN + 1
    /\ logbook[NGEN + 1].gen = NGEN

(***************************************************************************)
(* C4.  The run result: max_value is the greatest maximum value objective  *)
(* of the records, earliest_generation the least generation index whose    *)
(* record holds exactly that maximum; it is defined, within 0..NGEN, and   *)
(* max_value is not negative.                                              *)
(***************************************************************************)
C4_RunResult ==
    pc = "returned" =>
        /\ \A i \in 1 .. Len(logbook) : logbook[i].max[2] <= result[2]
        /\ \E i \in 1 .. Len(logbook) :
              /\ logbook[i].gen = result[1]
              /\ logbook[i].max[2] = result[2]
        /\ \A i \in 1 .. Len(logbook) :
              logbook[i].max[2] = result[2] => logbook[i].gen >= result[1]
        /\ result[1] # NoGeneration
        /\ result[1] \in 0 .. NGEN
        /\ result[2] >= 0

C4_Witness ==
    /\ pc = "returned"
    /\ result[1] = 1
    /\ logbook[1].max[2] < result[2]
    /\ logbook[NGEN + 1].max[2] = result[2]

(***************************************************************************)
(* C8 as stated: in a run with cxpb > 0 and mutpb > 0 the mutation test    *)
(* decides on every offspring, whether or not crossover was applied to it. *)
(***************************************************************************)
C8_MutationWhateverCrossover ==
    (cfg # None /\ cfg.cxpb > 0 /\ cfg.mutpb > 0) =>
        \A i \in 1 .. Len(offspring) : "mutpb" \in offspring[i].tested

(***************************************************************************)
(* C8 as amended: one draw chooses between crossover and mutation for each *)
(* offspring, so no offspring undergoes both in one generation step: a     *)
(* crossed offspring was never put to the mutation test, and on the grid   *)
(* (cxpb + mutpb = 1) every offspring undergoes exactly one of the two.    *)
(***************************************************************************)
C8_CrossoverOrMutation ==
    \A i \in 1 .. Len(offspring) :
        /\ ~(offspring[i].crossed /\ offspring[i].mutated)
        /\ offspring[i].crossed => "mutpb" \notin offspring[i].tested
        /\ cfg.cxpb + cfg.mutpb = 10 =>
              (offspring[i].crossed \/ offspring[i].mutated)
        /\ offspring[i].crossed \/ offspring[i].mutated => offspring[i].fit = None

C8_Witness ==
    /\ cfg # None /\ cfg.cxpb > 0 /\ cfg.mutpb > 0
    /\ Len(offspring) = LAMBDA_
    /\ \E i, j \in 1 .. Len(offspring) :
          /\ offspring[i].crossed /\ ~offspring[i].mutated
          /\ offspring[j].mutated /\ ~offspring[j].crossed

(***************************************************************************)
(* C9.  The population holds exactly MU individuals once initialised and   *)
(* after every generation step, and the survivors of a step are taken from *)
(* the pool (population plus offspring) in front order: no survivor while  *)
(* a pool member of a strictly earlier front is left out.  A dominates B   *)
(* iff A's weight <= B's, A's value >= B's, one of them strictly.          *)
(***************************************************************************)
ClaimDominates(f, g) ==
    /\ f[1] <= g[1] /\ f[2] >= g[2]
    /\ (f[1] < g[1] \/ f[2] > g[2])

RECURSIVE FrontOf(_, _)
\* the front of fitness f in the set F of fitnesses: one more than the
\* latest front among those that dominate it
FrontOf(f, F) ==
    LET above == {g \in F : ClaimDominates(g, f)}
    IN  IF above = {} THEN 1
        ELSE 1 + MaxOf({FrontOf(g, above) : g \in above})

SurvivorsInFrontOrder(pool, survivors) ==
    LET F == {x.fit : x \in Range(pool)}
    IN  /\ Len(pool) = MU + LAMBDA_
        /\ Len(survivors) = MU
        /\ \A s \in Range(survivors) : Count(survivors, s) <= Count(pool, s)
        /\ \A s \in Range(survivors), t \in Range(pool) :
              Count(pool, t) > Count(survivors, t) =>
                  FrontOf(t.fit, F) >= FrontOf(s.fit, F)

C9_SizeKept ==
    /\ pc \in {"vary", "derive", "returned"} => Len(pop) = MU
    /\ pc = "populate" => Len(pop) <= MU

C9_SelectionStep ==
    (pc = "vary" /\ Len(offspring) = LAMBDA_) =>
        SurvivorsInFrontOrder(
            [i \in 1 .. MU + LAMBDA_ |->
                LET x == PoolOf(pop, offspring)[i]
                IN  [ind |-> x.ind, fit |-> evalKnapsack(x.ind, items)]],
            pop')

C9_PopulationByFronts ==
    /\ []C9_SizeKept
    /\ [][C9_SelectionStep]_vars

\* a selection about to act on a pool of three fronts or more, whose
\* survivors all come from fronts before the last
C9_Witness ==
    /\ pc = "vary" /\ Len(offspring) = LAMBDA_ /\ gen = NGEN
    /\ LET pool == EvaluateInvalid(PoolOf(pop, offspring), items)
           F == {x.fit : x \in Range(pool)}
           newpop == NextPopulation(pop, offspring, items)
       IN  /\ \E t \in Range(pool) : FrontOf(t.fit, F) >= 3
           /\ \E t \in Range(pool) : \E s \in Range(newpop) :
                 /\ Count(newpop, t) = 0
                 /\ FrontOf(t.fit, F) = FrontOf(s.fit, F)
                 /\ t.fit # s.fit

(***************************************************************************)
(* C10.  The recorded maximum value never decreases from one generation    *)
(* to the next; so the run's max_value is the maximum value of the final   *)
(* population, and earliest_generation is the first generation from which  *)
(* the recorded maximum stays at that final value.                         *)
(***************************************************************************)
C10_MaxValueMonotone ==
    /\ \A i \in 1 .. Len(logbook) - 1 : logbook[i + 1].max[2] >= logbook[i].max[2]
    /\ pc \in {"vary", "derive", "returned"} =>
          logbook[Len(logbook)].max[2] = MaxOf({pop[i].fit[2] : i \in 1 .. Len(pop)})
    /\ pc = "returned" =>
          /\ result[2] = MaxOf({pop[i].fit[2] : i \in 1 .. Len(pop)})
          /\ \A i \in 1 .. Len(logbook) :
                logbook[i].gen >= result[1] <=> logbook[i].max[2] = result[2]

C10_Witness ==
    /\ pc = "returned"
    /\ logbook[1].max[2] < logbook[2].max[2]
    /\ logbook[2].max[2] < logbook[NGEN + 1].max[2]
    /\ result[1] = NGEN

(***************************************************************************)
(* C1.  evalKnapsack returns (10000, 0) exactly when the individual has    *)
(* more than MAX_ITEM members or its weights sum to more than MAX_WEIGHT,  *)
(* returns (sum of weights, sum of values) otherwise, and never fails.     *)
(***************************************************************************)
WeightOf(A) == SeqSum([i \in 1 .. Cardinality(A) |-> items[SortedSeq(A)[i]][1]])
ValueOf(A) == SeqSum([i \in 1 .. Cardinality(A) |-> items[SortedSeq(A)[i]][2]])

C1_EvalContract ==
    pc = "evaluated" =>
        LET penalised == Cardinality(ind1) > 50 \/ WeightOf(ind1) > 50
        IN  /\ fit # <<"KeyError">>
            /\ (fit = <<10000, 0>>) <=> penalised
            /\ ~penalised => fit = <<WeightOf(ind1), ValueOf(ind1)>>
            /\ ind1 = {} => fit = <<0, 0>>

C1_Witness ==
    /\ pc = "evaluated"
    /\ WeightOf(ind1) = 51
    /\ Cardinality(ind1) <= 50
    /\ fit = <<10000, 0>>

(***************************************************************************)
(* C6.  After cxSet(A, B) on distinct objects, A is the intersection and B *)
(* the symmetric difference of the two sets as they were before the call.  *)
(***************************************************************************)
C6_CxSetContract ==
    (last # None /\ last.op = "cxSet") =>
        LET A == last.a
            B == last.b
        IN  /\ ind1 = A \cap B
            /\ ind2 = (A \cup B) \ (A \cap B)
            /\ Cardinality(ind1) <= Min2(Cardinality(A), Cardinality(B))
            /\ Cardinality(ind2) =
                  Cardinality(A) + Cardinality(B) - 2 * Cardinality(A \cap B)

C6_Witness ==
    /\ last # None /\ last.op = "cxSet"
    /\ last.a \cap last.b # {}
    /\ last.a \ last.b # {}
    /\ last.b \ last.a # {}
    /\ ind2 = (last.a \ last.b) \cup (last.b \ last.a)

(***************************************************************************)
(* C7.  mutSet never fails and attempts one mutation event: the remove     *)
(* branch leaves an empty individual unchanged and removes exactly one     *)
(* member otherwise; the add branch inserts one index of [0, NBR_ITEMS);   *)
(* members stay in range and the cardinality changes by at most one.       *)
(***************************************************************************)
C7_MutSetContract ==
    (last # None /\ last.op = "mutSet") =>
        LET pre == last.pre
        IN  /\ last.err = None
            /\ (last.coin < 5 /\ pre = {}) => ind1 = pre
            /\ (last.coin < 5 /\ pre # {}) =>
                  /\ ind1 \subseteq pre
                  /\ Cardinality(ind1) = Cardinality(pre) - 1
            /\ last.coin >= 5 =>
                  /\ \E x \in Universe : ind1 = pre \cup {x}
                  /\ pre = Universe => ind1 = pre
            /\ pre \subseteq Universe => ind1 \subseteq Universe
            /\ Abs(Cardinality(ind1) - Cardinality(pre)) <= 1

C7_Witness ==
    /\ last # None /\ last.op = "mutSet"
    /\ last.coin < 5
    /\ last.pre = {}
    /\ ind1 = {}

C7_WitnessAddFull ==
    /\ last # None /\ last.op = "mutSet"
    /\ last.coin >= 5
    /\ last.pre = Universe
    /\ ind1 = Universe

====
